---- MODULE Spec2Model ----
(***************************************************************************)
(* Model of the post controller, my-world-backend/src/api/posts/           *)
(* posts.ctrl.js: the handlers write, list, read, remove, update and the   *)
(* middleware checkObjectId, over a document store holding the posts.      *)
(*                                                                         *)
(* A JavaScript value is a record [t, v]: t is its type, v its content.    *)
(* A string is a sequence of one-character strings, so that length and     *)
(* slice are computed; a number holds its decimal digits; an array holds   *)
(* its items; undefined stands for a key that the object lacks.            *)
(* An identifier in a request is an integer: 1, 2, ... stand for the       *)
(* 24-hex ObjectIds the store hands out, integers below 1 for strings      *)
(* that ObjectId.isValid refuses.                                          *)
(***************************************************************************)
EXTENDS Integers, Sequences, FiniteSets, TLC

VARIABLES posts, nextId, removed, resp

vars == <<posts, nextId, removed, resp>>

\* ------------------------------------------------------------------ bounds

\* Identifiers the store may hand out in the CRUD specification.
MaxId == 2
\* Posts the store may hold in the pagination specification.
MaxListPosts == 11

\* ------------------------------------------------------- program constants

\* .limit(10), (page - 1) * 10, Math.ceil(postCount / 10)
PageSize == 10
\* the threshold in the comparison of the body length and slice(0, 200)
BodyLimit == 200

\* --------------------------------------------------------------- JS values

Undefined == [t |-> "undefined", v |-> <<>>]
Str(s) == [t |-> "string", v |-> s]
Num(d) == [t |-> "number", v |-> d]
Arr(a) == [t |-> "array", v |-> a]

\* A string of n characters.
Chars(n) == [i \in 1..n |-> "x"]

\* The template literal `...` appended to a sliced body.
Marker == <<".", ".", ".">>

\* String.prototype.slice(0, n)
Slice0(s, n) == SubSeq(s, 1, IF Len(s) < n THEN Len(s) ELSE n)

\* ---------------------------------------------------------- Joi validation

\* Joi.string(): a string, and not the empty one (Joi's default).
JoiString(x) == x.t = "string" /\ x.v # <<>>

\* Joi.array().items(Joi.string())
JoiArrayOfStrings(x) ==
    x.t = "array" /\ \A i \in 1..Len(x.v) : JoiString(x.v[i])

\* The schema of write with tags left optional.
WriteSchemaTagsOptional(b) ==
    /\ JoiString(b.title)
    /\ JoiString(b.body)
    /\ b.tags = Undefined \/ JoiArrayOfStrings(b.tags)

\* The schema of write: the three keys are required.
WriteSchemaValid(b) ==
    /\ JoiString(b.title)
    /\ JoiString(b.body)
    /\ JoiArrayOfStrings(b.tags)

\* The schema validated in read: the three keys are optional.
ReadSchemaValid(b) ==
    /\ b.title = Undefined \/ JoiString(b.title)
    /\ b.body = Undefined \/ JoiString(b.body)
    /\ b.tags = Undefined \/ JoiArrayOfStrings(b.tags)

\* ------------------------------------------------------------ the Post model

\* A String path casts a number to the string of its digits.
CastString(x) == IF x.t = "number" THEN Str(x.v) ELSE x

\* A [String] path wraps a lone value into an array and casts the items.
CastTags(x) ==
    IF x.t = "array"
    THEN Arr([i \in 1..Len(x.v) |-> CastString(x.v[i])])
    ELSE Arr(<<CastString(x)>>)

\* A value the Post schema can cast for the path.
CastableString(x) == x.t \in {"string", "number"}
CastableTags(x) ==
    IF x.t = "array"
    THEN \A i \in 1..Len(x.v) : CastableString(x.v[i])
    ELSE CastableString(x)

\* The fields of an update document that the schema cannot cast: the store
\* call then rejects with a CastError.
Uncastable(b) ==
    \/ b.title # Undefined /\ ~CastableString(b.title)
    \/ b.body # Undefined /\ ~CastableString(b.body)
    \/ b.tags # Undefined /\ ~CastableTags(b.tags)

\* ---------------------------------------------------------------- the store

\* The stored identifiers.
Ids == {posts[i].id : i \in 1..Len(posts)}

\* Post.findById(id): the index of the document, 0 when there is none.
IndexOf(id) ==
    IF id \in Ids THEN CHOOSE i \in 1..Len(posts) : posts[i].id = id ELSE 0

\* Post.find().sort({ _id: -1 }): the documents, greatest identifier first.
RECURSIVE SortDesc(_)
SortDesc(S) ==
    IF S = {} THEN <<>>
    ELSE LET m == CHOOSE p \in S : \A q \in S : q.id <= p.id
         IN <<m>> \o SortDesc(S \ {m})

\* .skip(offset).limit(10) of the sorted documents.
FindPage(offset) ==
    LET sorted == SortDesc({posts[i] : i \in 1..Len(posts)})
        last == IF offset + PageSize < Len(sorted)
                THEN offset + PageSize ELSE Len(sorted)
    IN SubSeq(sorted, offset + 1, last)

\* The documents without the one named id.
Without(id) == SelectSeq(posts, LAMBDA p : p.id # id)

\* An update that replaces the document by the update document.
MergeReplace(post, b) ==
    [id |-> post.id,
     title |-> CastString(b.title),
     body |-> CastString(b.body),
     tags |-> IF b.tags = Undefined THEN Undefined ELSE CastTags(b.tags)]

\* findByIdAndUpdate wraps the keys of the update document in $set: a key
\* the document has replaces the stored field, the other fields stay.
Merge(post, b) ==
    [id |-> post.id,
     title |-> IF b.title = Undefined THEN post.title ELSE CastString(b.title),
     body |-> IF b.body = Undefined THEN post.body ELSE CastString(b.body),
     tags |-> IF b.tags = Undefined THEN post.tags ELSE CastTags(b.tags)]

\* -------------------------------------------------------------- JS numbers

\* A number that may be NaN.
NaN == [nan |-> TRUE, n |-> 0]
Int32(n) == [nan |-> FALSE, n |-> n]

Digits == <<"0", "1", "2", "3", "4", "5", "6", "7", "8", "9">>
IsDigit(c) == \E d \in 1..10 : Digits[d] = c
DigitValue(c) == (CHOOSE d \in 1..10 : Digits[d] = c) - 1

\* The longest prefix of s made of digits.
RECURSIVE DigitPrefix(_)
DigitPrefix(s) ==
    IF s = <<>> \/ ~IsDigit(Head(s)) THEN <<>>
    ELSE <<Head(s)>> \o DigitPrefix(Tail(s))

\* The value of a sequence of digits.
RECURSIVE DigitsValue(_)
DigitsValue(d) ==
    IF d = <<>> THEN 0
    ELSE 10 * DigitsValue(SubSeq(d, 1, Len(d) - 1)) + DigitValue(d[Len(d)])

\* s without its leading white space.
RECURSIVE TrimStart(_)
TrimStart(s) ==
    IF s # <<>> /\ Head(s) = " " THEN TrimStart(Tail(s)) ELSE s

\* parseInt(s, 10): white space, a sign, then the digits up to the first
\* character that is none; NaN when there is no digit.
ParseInt(s) ==
    LET t == TrimStart(s)
        signed == t # <<>> /\ Head(t) \in {"-", "+"}
        d == DigitPrefix(IF signed THEN Tail(t) ELSE t)
    IN IF d = <<>> THEN NaN
       ELSE IF signed /\ Head(t) = "-" THEN Int32(0 - DigitsValue(d))
       ELSE Int32(DigitsValue(d))

\* a < k: false when a is NaN.
LessThan(a, k) == ~a.nan /\ a.n < k

\* (page - 1) * 10
SkipOf(page) == IF page.nan THEN NaN ELSE Int32((page.n - 1) * PageSize)

\* ctx.query.page || '1': undefined and the empty string are falsy.
PageOrDefault(q) == IF q = Undefined \/ q.v = <<>> THEN <<"1">> ELSE q.v

\* postCount / 10 rounded down.
MathFloor(count) == count \div PageSize

\* Math.ceil(postCount / 10)
MathCeil(count) == (count + PageSize - 1) \div PageSize

\* ------------------------------------------------------------- list's view

\* post.body.length(): length is a number, and calling a number throws a
\* TypeError, whatever the string.
LengthCallThrows(body) == Len(body.v) >= 0

\* The object the map callback builds once the comparison has a value.
RenderPost(post) ==
    [post EXCEPT !.body =
        IF Len(post.body.v) < BodyLimit THEN post.body
        ELSE Str(Slice0(post.body.v, BodyLimit) \o Marker)]

\* posts.map(...) throws when the callback throws for an element.
MapThrows(found) == \E i \in 1..Len(found) : LengthCallThrows(found[i].body)
MapRender(found) == [i \in 1..Len(found) |-> RenderPost(found[i])]

\* --------------------------------------------------------------- responses

\* The body {} of a request that carries none.
EmptyObject == [title |-> Undefined, body |-> Undefined, tags |-> Undefined]

\* What a finished request leaves: the request (op, id, page, payload), the
\* response (status, body, the Last-Page header, -1 when it is not set) and
\* what the handler did (ran: the handler was entered; calls: the store calls
\* issued, in order; skip: the argument of .skip(); found: what find
\* returned; storeError: a store call rejected).
NoResponse ==
    [op |-> "none", id |-> 0, page |-> Undefined, payload |-> EmptyObject,
     status |-> 0, body |-> <<>>, lastPage |-> 0 - 1, ran |-> FALSE,
     calls |-> <<>>, skip |-> Int32(0 - 1), found |-> <<>>,
     storeError |-> FALSE]

Request(op, id, b) == [NoResponse EXCEPT !.op = op, !.id = id, !.payload = b]

\* ctx.status = 400 in a middleware or at the top of a handler.
BadRequest(r, ran) == [r EXCEPT !.status = 400, !.ran = ran]

\* ctx.throw(500, e) for a rejected store call: Koa answers 500 and drops
\* the headers set so far.
StoreFailure(r, calls) ==
    [r EXCEPT !.status = 500, !.ran = TRUE, !.calls = calls,
              !.storeError = TRUE]

\* The ValidationError read puts in the body of its 400.
JoiError == [error |-> "ValidationError"]

\* ---------------------------------------------------------- checkObjectId

\* ObjectId.isValid(id)
ObjectIdIsValid(id) == id >= 1

\* A middleware that calls next whatever the identifier.
checkObjectIdAlways(id) == TRUE

\* checkObjectId(ctx, next) calls next: the identifier is valid.
checkObjectId(id) == ObjectIdIsValid(id)

\* ------------------------------------------------------------------- write

write(b, maxId) ==
    /\ UNCHANGED removed
    /\ IF ~WriteSchemaValid(b)
       THEN /\ resp' = BadRequest(Request("write", 0, b), TRUE)
            /\ UNCHANGED <<posts, nextId>>
       ELSE /\ nextId <= maxId
            /\ LET post == [id |-> nextId, title |-> b.title,
                            body |-> b.body, tags |-> b.tags]
               IN \/ /\ resp' = StoreFailure(Request("write", 0, b), <<"save">>)
                     /\ UNCHANGED <<posts, nextId>>
                  \/ /\ posts' = Append(posts, post)
                     /\ nextId' = nextId + 1
                     /\ resp' = [Request("write", 0, b) EXCEPT
                                   !.status = 200, !.ran = TRUE,
                                   !.calls = <<"save">>, !.body = <<post>>]

\* -------------------------------------------------------------------- read

read(id, b) ==
    /\ UNCHANGED <<posts, nextId, removed>>
    /\ IF ~ReadSchemaValid(b)
       THEN resp' = [BadRequest(Request("read", id, b), TRUE) EXCEPT
                       !.body = <<JoiError>>]
       ELSE \/ resp' = StoreFailure(Request("read", id, b), <<"findById">>)
            \/ /\ ObjectIdIsValid(id)
               /\ resp' = [Request("read", id, b) EXCEPT
                             !.ran = TRUE, !.calls = <<"findById">>,
                             !.status = IF IndexOf(id) = 0 THEN 404 ELSE 200,
                             !.body = IF IndexOf(id) = 0 THEN <<>>
                                      ELSE <<posts[IndexOf(id)]>>]

\* ------------------------------------------------------------------ remove

remove(id) ==
    /\ UNCHANGED nextId
    /\ \/ /\ resp' = StoreFailure(Request("remove", id, EmptyObject),
                                  <<"findByIdAndRemove">>)
          /\ UNCHANGED <<posts, removed>>
       \/ /\ ObjectIdIsValid(id)
          /\ posts' = Without(id)
          /\ removed' = removed \cup ({id} \cap Ids)
          /\ resp' = [Request("remove", id, EmptyObject) EXCEPT
                        !.ran = TRUE, !.status = 204,
                        !.calls = <<"findByIdAndRemove">>]

\* ------------------------------------------------------------------ update

\* The documents after findByIdAndUpdate(id, b).
Updated(id, b) ==
    [i \in 1..Len(posts) |->
        IF posts[i].id = id THEN Merge(posts[i], b) ELSE posts[i]]

update(id, b) ==
    /\ UNCHANGED <<nextId, removed>>
    /\ \/ /\ resp' = StoreFailure(Request("update", id, b),
                                  <<"findByIdAndUpdate">>)
          /\ UNCHANGED posts
       \/ /\ ObjectIdIsValid(id)
          /\ ~Uncastable(b)
          /\ posts' = Updated(id, b)
          /\ resp' = [Request("update", id, b) EXCEPT
                        !.ran = TRUE, !.calls = <<"findByIdAndUpdate">>,
                        !.status = IF IndexOf(id) = 0 THEN 404 ELSE 200,
                        !.body = IF IndexOf(id) = 0 THEN <<>>
                                 ELSE <<Merge(posts[IndexOf(id)], b)>>]

\* ------------------------------------------------------------------ routes

\* The early return of checkObjectId: 400, and next is not called.
Refused(op, id, b) ==
    /\ resp' = BadRequest(Request(op, id, b), FALSE)
    /\ UNCHANGED <<posts, nextId, removed>>

\* GET, DELETE and PATCH /api/posts/:id: checkObjectId, then the handler.
getPost(id, b) == IF checkObjectId(id) THEN read(id, b) ELSE Refused("read", id, b)
deletePost(id) ==
    IF checkObjectId(id) THEN remove(id) ELSE Refused("remove", id, EmptyObject)
patchPost(id, b) ==
    IF checkObjectId(id) THEN update(id, b) ELSE Refused("update", id, b)

\* -------------------------------------------------------------------- list

ListRequest(q) == [NoResponse EXCEPT !.op = "list", !.page = q]

\* The handler from the request to the response, its two store calls taken
\* at one instant. A NaN offset is either refused by the store or taken as
\* no offset.
list(q) ==
    /\ UNCHANGED <<posts, nextId, removed>>
    /\ LET page == ParseInt(PageOrDefault(q))
           skip == SkipOf(page)
           found == FindPage(IF skip.nan THEN 0 ELSE skip.n)
           r == [ListRequest(q) EXCEPT !.skip = skip]
       IN IF LessThan(page, 1)
          THEN resp' = BadRequest(ListRequest(q), TRUE)
          ELSE \/ resp' = StoreFailure(r, <<"find">>)
               \/ resp' = StoreFailure([r EXCEPT !.found = found],
                                       <<"find", "countDocuments">>)
               \/ resp' = IF MapThrows(found)
                          THEN [r EXCEPT !.status = 500, !.ran = TRUE,
                                         !.found = found,
                                         !.calls = <<"find", "countDocuments">>]
                          ELSE [r EXCEPT !.status = 200, !.ran = TRUE,
                                         !.found = found,
                                         !.calls = <<"find", "countDocuments">>,
                                         !.lastPage = MathCeil(Len(posts)),
                                         !.body = MapRender(found)]

\* ------------------------------------------------------------------ inputs

ShortBody == Str(<<"B">>)
LimitBody == Str(Chars(BodyLimit))
LongBody == Str(Chars(BodyLimit + 1))

Title == Str(<<"A">>)
Tags == Arr(<<Str(<<"x">>)>>)

\* Request bodies of POST /api/posts: one the schema accepts, then one per
\* way of lacking a field or of giving it another type.
WriteBodies ==
    { [title |-> Title, body |-> LongBody, tags |-> Tags],
      [title |-> Undefined, body |-> LongBody, tags |-> Tags],
      [title |-> Title, body |-> Undefined, tags |-> Tags],
      [title |-> Title, body |-> LongBody, tags |-> Undefined],
      [title |-> Num(<<"5">>), body |-> LongBody, tags |-> Tags],
      [title |-> Title, body |-> Num(<<"5">>), tags |-> Tags],
      [title |-> Title, body |-> LongBody, tags |-> Str(<<"x">>)],
      [title |-> Title, body |-> LongBody, tags |-> Arr(<<Num(<<"5">>)>>)] }

\* Request bodies of POST /api/posts in the pagination specification.
ListWriteBodies ==
    { [title |-> Title, body |-> ShortBody, tags |-> Tags],
      [title |-> Title, body |-> ShortBody, tags |-> Undefined] }

\* Request bodies of PATCH /api/posts/:id: parts of a post, then bodies
\* with a field of another type.
UpdateBodies ==
    { EmptyObject,
      [EmptyObject EXCEPT !.title = Str(<<"n", "e", "w">>)],
      [EmptyObject EXCEPT !.body = LimitBody],
      [EmptyObject EXCEPT !.tags = Str(<<"x">>)],
      [EmptyObject EXCEPT !.body = Arr(<<>>)] }

\* Request bodies of GET /api/posts/:id.
ReadBodies ==
    { EmptyObject, [EmptyObject EXCEPT !.title = Num(<<"5">>)] }

\* Identifiers in the path: one that is no ObjectId, those the store hands
\* out, and one it never does.
PathIds == 0..(MaxId + 1)

\* The page query parameter: absent, empty, and strings.
Pages ==
    { Undefined, Str(<<>>), Str(<<"1">>), Str(<<"2">>), Str(<<"3">>),
      Str(<<"0">>), Str(<<"-", "1">>), Str(<<"a">>), Str(<<"2", "a">>),
      Str(<<" ", "1">>) }

\* ------------------------------------------------------- the specifications

Init ==
    /\ posts = <<>>
    /\ nextId = 1
    /\ removed = {}
    /\ resp = NoResponse

\* Every operation, on a store of a few posts.
Next ==
    \/ \E b \in WriteBodies : write(b, MaxId)
    \/ \E id \in PathIds, b \in ReadBodies : getPost(id, b)
    \/ \E id \in PathIds : deletePost(id)
    \/ \E id \in PathIds, b \in UpdateBodies : patchPost(id, b)
    \/ \E q \in {Undefined, Str(<<"1">>), Str(<<"2">>), Str(<<"0">>)} : list(q)

Spec == Init /\ [][Next]_vars

\* Pagination, on a store of more posts than a page holds.
ListNext ==
    \/ \E b \in ListWriteBodies : write(b, MaxListPosts)
    \/ \E id \in 0..1 : deletePost(id)
    \/ \E q \in Pages : list(q)

ListSpec == Init /\ [][ListNext]_vars

\* ------------------------------------------------------------------ claims

\* The identifiers of a sequence of posts, in order.
IdsOf(ps) == [i \in 1..Len(ps) |-> ps[i].id]

\* C1: read, update and remove of an identifier that is no ObjectId answer
\* 400, issue no store call, and never enter the handler.
C1_MalformedIdRejected ==
    (resp.op \in {"read", "update", "remove"} /\ resp.id < 1)
        => (resp.status = 400 /\ resp.calls = <<>> /\ ~resp.ran)

C1_Witness ==
    /\ resp.op = "update"
    /\ resp.id < 1
    /\ resp.payload.title # Undefined
    /\ resp.status = 400
    /\ posts # <<>>

\* A body of write that lacks title, body or tags, or gives one another type.
LacksCreateField(b) ==
    \/ b.title.t # "string"
    \/ b.body.t # "string"
    \/ b.tags.t # "array"
    \/ \E i \in 1..Len(b.tags.v) : b.tags.v[i].t # "string"

\* C2: a write whose body lacks title, body or tags, or gives one another
\* type, answers 400, issues no store call, and leaves the posts as they were.
C2_InvalidWriteLeavesStore ==
    [][(resp'.op = "write" /\ LacksCreateField(resp'.payload))
          => (resp'.status = 400 /\ resp'.calls = <<>> /\ posts' = posts)]_vars

C2_Witness ==
    /\ resp.op = "write"
    /\ resp.payload.tags = Undefined
    /\ resp.payload.title # Undefined
    /\ resp.status = 400
    /\ posts # <<>>

\* C3: list of a page >= 1 answers 200 with at most 10 posts, those at
\* (page-1)*10 .. (page-1)*10+9 of the posts, most recent first; list of a
\* page below 1 answers 400 with no post (a refused store call aside).
C3_ListPage ==
    (resp.op = "list" /\ ~resp.storeError) =>
        LET page == ParseInt(PageOrDefault(resp.page))
        IN /\ LessThan(page, 1) => (resp.status = 400 /\ resp.body = <<>>)
           /\ (~page.nan /\ page.n >= 1) =>
                 /\ resp.status = 200
                 /\ Len(resp.body) <= PageSize
                 /\ IdsOf(resp.body) = IdsOf(FindPage((page.n - 1) * PageSize))

\* C4: list renders a body of more than 200 characters as its first 200
\* followed by "...", any other body as it is stored, and alters no stored
\* body (a refused request or store call aside).
C4_ListTruncates ==
    (resp.op = "list" /\ ~resp.storeError /\ resp.status # 400) =>
        /\ resp.status = 200
        /\ Len(resp.body) = Len(resp.found)
        /\ \A i \in 1..Len(resp.found) :
              /\ resp.body[i].body.v =
                    IF Len(resp.found[i].body.v) > BodyLimit
                    THEN SubSeq(resp.found[i].body.v, 1, BodyLimit) \o Marker
                    ELSE resp.found[i].body.v
              /\ \E j \in 1..Len(posts) : posts[j] = resp.found[i]

\* C5: the Last-Page header of a 200 of list is the least number of pages of
\* 10 that hold the stored posts, whatever the page asked.
C5_LastPage ==
    (resp.op = "list" /\ resp.status = 200) =>
        /\ resp.lastPage >= 0
        /\ resp.lastPage * 10 >= Len(posts)
        /\ (resp.lastPage - 1) * 10 < Len(posts)

C5_Witness ==
    /\ resp.op = "list"
    /\ resp.status = 200
    /\ Len(posts) = 11
    /\ resp.lastPage = 2

\* A body of update with a field of a type the schema refuses.
ViolatesUpdateSchema(b) ==
    \/ b.title # Undefined /\ b.title.t # "string"
    \/ b.body # Undefined /\ b.body.t # "string"
    \/ b.tags # Undefined /\ b.tags.t # "array"
    \/ b.tags.t = "array" /\ \E i \in 1..Len(b.tags.v) : b.tags.v[i].t # "string"

\* C6: an update of a valid identifier whose body violates the update schema
\* answers 400 and issues no store call (a refused store call aside).
C6_InvalidUpdateRejected ==
    (resp.op = "update" /\ resp.id >= 1 /\ ~resp.storeError
        /\ ViolatesUpdateSchema(resp.payload))
        => (resp.status = 400 /\ resp.calls = <<>>)

\* C7: a read of a valid identifier that names no stored post answers 404,
\* so does every read of an identifier once its post was removed, and no
\* removed identifier is stored again (a refused store call aside).
C7_ReadAbsentIsNotFound ==
    /\ removed \cap Ids = {}
    /\ (resp.op = "read" /\ resp.id >= 1 /\ ~resp.storeError) =>
          /\ resp.id \notin Ids => resp.status = 404
          /\ resp.id \in removed => resp.status = 404

\* C8: an update that reaches an existing post answers 200 with the post
\* after the merge, keeps the id and every field the body omits, and leaves
\* every other post as it was; one that reaches no post answers 404 and
\* leaves the posts as they were (a refused store call aside).
C8_UpdateMerges ==
    [][(resp'.op = "update" /\ resp'.ran /\ ~resp'.storeError) =>
          IF resp'.id \in Ids
          THEN /\ resp'.status = 200
               /\ Len(posts') = Len(posts)
               /\ \A i \in 1..Len(posts) :
                     IF posts[i].id # resp'.id
                     THEN posts'[i] = posts[i]
                     ELSE /\ posts'[i].id = posts[i].id
                          /\ resp'.payload.title = Undefined
                                => posts'[i].title = posts[i].title
                          /\ resp'.payload.body = Undefined
                                => posts'[i].body = posts[i].body
                          /\ resp'.payload.tags = Undefined
                                => posts'[i].tags = posts[i].tags
                          /\ resp'.body = <<posts'[i]>>
          ELSE /\ resp'.status = 404
               /\ resp'.body = <<>>
               /\ posts' = posts]_vars

C8_Witness ==
    /\ resp.op = "update"
    /\ resp.status = 200
    /\ resp.payload = [EmptyObject EXCEPT !.title = Str(<<"n", "e", "w">>)]
    /\ resp.body[1].title = Str(<<"n", "e", "w">>)
    /\ resp.body[1].body = LimitBody
    /\ resp.body[1].tags = Tags
    /\ Len(posts) = 2

\* C9: a read of a valid identifier always issues findById and answers 200
\* with the stored post, 404 when there is none, or 500 when the store
\* refuses; it never answers 400.
C9_ReadStatuses ==
    (resp.op = "read" /\ resp.id >= 1) =>
        /\ resp.calls = <<"findById">>
        /\ resp.status \in {200, 404, 500}
        /\ resp.status = 500 <=> resp.storeError
        /\ resp.status = 200 =>
              \E i \in 1..Len(posts) :
                 posts[i].id = resp.id /\ resp.body = <<posts[i]>>
        /\ resp.status = 404 => resp.id \notin Ids

\* C10: list either answers 400 with no store call, or issues find with an
\* offset that is 0, 10, 20, ...; no page parameter is page 1; a parameter
\* with no integer in front issues no store call.
C10_PageParameter ==
    resp.op = "list" =>
        /\ \/ resp.status = 400 /\ resp.calls = <<>>
           \/ /\ resp.calls # <<>>
              /\ resp.calls[1] = "find"
              /\ ~resp.skip.nan
              /\ resp.skip.n >= 0
              /\ resp.skip.n % 10 = 0
        /\ resp.page = Undefined => (resp.calls # <<>> /\ resp.skip = Int32(0))
        /\ (resp.page # Undefined /\ resp.page.v # <<>>
               /\ ParseInt(resp.page.v).nan) => resp.calls = <<>>

====
